---- MODULE Spec2Model ----
(***************************************************************************)
(* Model of sasmodels/models/sphere.c: the sphere form-factor kernel       *)
(* (form_volume, Iq, Fq).                                                  *)
(*                                                                         *)
(* C doubles are modelled as binary floating-point numbers with a          *)
(* MantBits-bit significand, round-to-nearest-even after every operation   *)
(* and an unbounded exponent (the finite, normal range of a double: no     *)
(* overflow, underflow, infinity or NaN).  A number is [m |-> significand,  *)
(* e |-> exponent], value m * 2^e, kept canonical so that equality of      *)
(* records is equality of values.                                          *)
(***************************************************************************)
EXTENDS Integers, Sequences, FiniteSets, TLC

\* Significand width of the modelled floating-point format (53 for a double).
MantBits == 10

\* Number of call frames that may be live at the same time.
NumThreads == 2

---------------------------------------------------------------------------
(* Floating-point arithmetic                                               *)

RECURSIVE Pow2(_)
Pow2(n) == IF n <= 0 THEN 1 ELSE 2 * Pow2(n - 1)

Abs(x) == IF x < 0 THEN -x ELSE x

Sgn(x) == IF x < 0 THEN -1 ELSE IF x > 0 THEN 1 ELSE 0

Zero == [m |-> 0, e |-> 0]

\* Significands lie in MantLo .. MantHi - 1.
MantHi == Pow2(MantBits)

MantLo == Pow2(MantBits - 1)

\* n/d for n >= 0, d > 0, rounded to the nearest integer, ties to even.
RoundDiv(n, d) ==
    LET f == n \div d
        r == n - f * d
    IN  IF 2 * r > d \/ (2 * r = d /\ f % 2 = 1) THEN f + 1 ELSE f

\* The floating-point number nearest to (n/d) * 2^e, d > 0.
RECURSIVE Norm(_, _, _)
Norm(n, d, e) ==
    IF n = 0 THEN Zero
    ELSE IF Abs(n) >= MantHi * d THEN Norm(n, 2 * d, e + 1)
    ELSE IF Abs(n) < MantLo * d THEN Norm(2 * n, d, e - 1)
    ELSE LET f == RoundDiv(Abs(n), d)
         IN  IF f = MantHi
             THEN [m |-> Sgn(n) * MantLo, e |-> e + 1]
             ELSE [m |-> Sgn(n) * f, e |-> e]

\* A decimal literal n/d of the source, as the compiler rounds it.
Rat(n, d) == Norm(n, d, 0)

One == Rat(1, 1)

Two == Rat(2, 1)

Three == Rat(3, 1)

Neg(a) == [m |-> -a.m, e |-> a.e]

\* a * b.  The product of two significands has 2*MantBits-1 or 2*MantBits
\* bits, so the rounding starts MantBits-1 places up.
Mul(a, b) == Norm(a.m * b.m, MantLo, a.e + b.e + (MantBits - 1))

\* a / b, b # 0.  The quotient of two significands lies between 1/2 and 2.
Div(a, b) == Norm(a.m * Sgn(b.m) * MantLo, Abs(b.m), a.e - b.e - (MantBits - 1))

\* a - b.  An operand more than MantBits+2 binary places below the other is
\* less than a quarter of its last place and rounds away.
Sub(a, b) ==
    IF b.m = 0 THEN a
    ELSE IF a.m = 0 THEN Neg(b)
    ELSE LET k == a.e - b.e
         IN  IF k > MantBits + 2 THEN a
             ELSE IF k < -(MantBits + 2) THEN Neg(b)
             ELSE IF k >= 0 THEN Norm(a.m * Pow2(k) - b.m, 1, b.e)
             ELSE Norm(a.m - b.m * Pow2(-k), 1, a.e)

\* a + b
Add(a, b) == Sub(a, Neg(b))

\* The next number above a.
NextUp(a) == Norm(a.m + 1, 1, a.e)

\* a < b (rounding never changes the sign of a difference)
Lt(a, b) == Sub(a, b).m < 0

---------------------------------------------------------------------------
(* The shared primitives the kernel calls (sasmodels/models/lib), modelled  *)
(* from their documented contracts.                                        *)

AbsF(a) == [m |-> Abs(a.m), e |-> a.e]

\* (4/3)*pi
M_4PI_3 == Rat(41888, 10000)

cube(x) == Mul(Mul(x, x), x)

\* Volume of a sphere: (4/3)*pi*radius^3.
sphere_volume(radius) == Mul(M_4PI_3, cube(radius))

\* sine and cosine, by their Taylor polynomials (adequate for |x| < 3).
SinDen == <<Rat(6, 1), Rat(20, 1), Rat(42, 1)>>

sin(x) ==
    LET x2 == Mul(x, x)
    IN  Mul(x, Sub(One, Mul(Div(x2, SinDen[1]),
               Sub(One, Mul(Div(x2, SinDen[2]),
               Sub(One, Div(x2, SinDen[3])))))))

CosDen == <<Rat(2, 1), Rat(12, 1), Rat(30, 1)>>

cos(x) ==
    LET x2 == Mul(x, x)
    IN  Sub(One, Mul(Div(x2, CosDen[1]),
        Sub(One, Mul(Div(x2, CosDen[2]),
        Sub(One, Div(x2, CosDen[3]))))))

\* Below this |x| the Bessel ratio is evaluated by its Taylor series.
SPH_J1C_CUTOFF == Rat(1, 10)

\* Coefficients of x^2 and x^4 in the Taylor series of 3*j1(x)/x.
SeriesCoef == <<Rat(-1, 10), Rat(1, 280)>>

\* 3*j1(x)/x: a truncated Taylor series near zero (exactly 1 at x = 0), the
\* closed form 3*(sin(x)/x - cos(x))/x^2 elsewhere.
sas_3j1x_x(x) ==
    LET x2 == Mul(x, x)
    IN  IF Lt(AbsF(x), SPH_J1C_CUTOFF)
        THEN Add(One, Mul(x2, Add(SeriesCoef[1], Mul(x2, SeriesCoef[2]))))
        ELSE Div(Mul(Three, Sub(Div(sin(x), x), cos(x))), x2)

\* The unit-conversion literal 1e-2 of Fq.
UnitScale == Rat(1, 100)

\* Intensity of a sphere: F2 of the amplitude formula,
\* (1e-2 * (sld - solvent_sld) * volume(radius) * sas_3j1x_x(q*radius))^2.
sphere_form(q, radius, sld, solvent_sld) ==
    LET fq       == sas_3j1x_x(Mul(q, radius))
        contrast == Sub(sld, solvent_sld)
        form     == Mul(Mul(Mul(UnitScale, contrast), sphere_volume(radius)), fq)
    IN  Mul(form, form)

---------------------------------------------------------------------------
(* sphere.c                                                                *)

\* Faulty variant of form_volume: the square of the radius for its cube.
form_volumeSquare(radius) == Mul(M_4PI_3, Mul(radius, radius))

\* static double form_volume(double radius)
form_volume(radius) == sphere_volume(radius)

\* Faulty variant of Iq: the arguments handed on in Iq's own order.
IqOwnOrder(q, sld, sld_solvent, radius) == sphere_form(q, sld, sld_solvent, radius)

\* static double Iq(double q, double sld, double sld_solvent, double radius)
Iq(q, sld, sld_solvent, radius) == sphere_form(q, radius, sld, sld_solvent)

\* Faulty variants of line 14: q, or the radius, left out of the argument.
Fq_fqNoQ(q, radius) == sas_3j1x_x(radius)

Fq_fqNoRadius(q, radius) == sas_3j1x_x(q)

\* line 14: const double fq = sas_3j1x_x(q*radius);
Fq_fq(q, radius) == sas_3j1x_x(Mul(q, radius))

\* Faulty variants of line 15: the contrast reversed, or its absolute value.
Fq_contrastReversed(sld, solvent_sld) == Sub(solvent_sld, sld)

Fq_contrastAbs(sld, solvent_sld) == AbsF(Sub(sld, solvent_sld))

\* line 15: const double contrast = (sld - solvent_sld);
Fq_contrast(sld, solvent_sld) == Sub(sld, solvent_sld)

\* line 16: const double form = 1e-2 * contrast * sphere_volume(radius) * fq;
Fq_form(contrast, radius, fq) ==
    Mul(Mul(Mul(UnitScale, contrast), sphere_volume(radius)), fq)

\* line 17: *F1 = form;
StoreF1(memory, F1, form) == [memory EXCEPT ![F1] = form]

\* Faulty variants of line 18: the square forgotten; form also kept in memory that is
\* not the caller's output.
StoreF2NoSquare(memory, F2, form) == [memory EXCEPT ![F2] = form]

StoreF2Cached(memory, F2, form) ==
    [memory EXCEPT ![F2] = Mul(form, form), ![0] = form]

\* line 18: *F2 = form*form;
StoreF2(memory, F2, form) == [memory EXCEPT ![F2] = Mul(form, form)]

\* Faulty variant of the statement order: *F2 stored before *F1.
FqNextPcSwapped(line) ==
    CASE line = "L14" -> "L15"
      [] line = "L15" -> "L16"
      [] line = "L16" -> "L18"
      [] line = "L18" -> "L17"
      [] line = "L17" -> "ret"

\* Fq is straight-line code: the statement that follows each statement.
FqNextPc(line) ==
    CASE line = "L14" -> "L15"
      [] line = "L15" -> "L16"
      [] line = "L16" -> "L17"
      [] line = "L17" -> "L18"
      [] line = "L18" -> "ret"

\* Faulty variant of the locals' storage: static, shared by all calls.
LocalShared(t) == 1

\* fq, contrast and form are automatic variables: every call has its own.
LocalOf(t) == t

---------------------------------------------------------------------------
(* State: the call frames of the kernel's callers and the memory their     *)
(* output pointers refer to.                                               *)

VARIABLES
    frame,   \* frame[t]: the call in slot t: function, position, arguments, result
    local,   \* local[i]: the automatic variables fq, contrast, form
    mem,     \* mem[a]: the double stored at address a
    stores   \* stores[t]: the addresses the call in slot t has stored to, in order

vars == <<frame, local, mem, stores>>

Slots == 1 .. NumThreads

\* Address 0 is memory that belongs to no call; slot t owns cells 2t-1 and 2t.
Addrs == 0 .. (2 * NumThreads)

CellsOf(t) == {2 * t - 1, 2 * t}

\* An unset double (a result not yet returned, a local not yet initialised).
Undef == [m |-> 0, e |-> 1]

UndefLocals == [fq |-> Undef, contrast |-> Undef, form |-> Undef]

IdleFrame ==
    [op |-> "none", pc |-> "idle", q |-> Zero, sld |-> Zero, solvent |-> Zero,
     radius |-> Zero, F1 |-> 0, F2 |-> 0, ret |-> Undef]

AtRest(t) == frame[t].pc \in {"idle", "ret"}

Returned(t, o) == frame[t].op = o /\ frame[t].pc = "ret"

\* Contents a caller's output storage may hold before the call.
JunkA == Rat(7, 1)

JunkB == Rat(-3, 8)

\* Arguments the callers pass: q >= 0, radius > 0, any densities.
QVals == {Zero, Rat(1, 16), Rat(1, 2), One}

\* Two neighbouring radii and the double of the first.
RVals == {Rat(5, 4), NextUp(Rat(5, 4)), Rat(5, 2)}

SldVals == {One, Rat(63, 10)}

\* The smaller argument sets of the concurrent callers.
QConc == {Rat(1, 16)}

RConc == {Rat(5, 4)}

Init ==
    /\ frame = [t \in Slots |-> IdleFrame]
    /\ local = [t \in Slots |-> UndefLocals]
    /\ mem = [a \in Addrs |-> JunkA]
    /\ stores = [t \in Slots |-> <<>>]

\* A caller enters a function: a new frame with its arguments; the storage the
\* caller owns in slot t (where F1 and F2 point, for Fq) holds arbitrary values.
Enter(t, o, entry, qq, s, ss, r, p1, p2, j1, j2) ==
    /\ AtRest(t)
    /\ frame' = [frame EXCEPT ![t] =
                    [op |-> o, pc |-> entry, q |-> qq, sld |-> s, solvent |-> ss,
                     radius |-> r, F1 |-> p1, F2 |-> p2, ret |-> Undef]]
    /\ local' = [local EXCEPT ![LocalOf(t)] = UndefLocals]
    /\ mem' = [a \in Addrs |->
                  IF a = 2 * t - 1 THEN j1 ELSE IF a = 2 * t THEN j2 ELSE mem[a]]
    /\ stores' = [stores EXCEPT ![t] = <<>>]

CallFormVolume(t, RS, JS) ==
    \E r \in RS, j1 \in JS, j2 \in JS :
        Enter(t, "form_volume", "L3", Zero, Zero, Zero, r, 0, 0, j1, j2)

CallIq(t, QS, SS, RS, JS) ==
    \E qq \in QS, s \in SS, ss \in SS, r \in RS, j1 \in JS, j2 \in JS :
        Enter(t, "Iq", "L9", qq, s, ss, r, 0, 0, j1, j2)

\* F1 points to the slot's first cell; F2 to a cell of P2S.
CallFq(t, QS, SS, RS, JS, P2S) ==
    \E qq \in QS, s \in SS, ss \in SS, r \in RS, j1 \in JS, j2 \in JS, p2 \in P2S :
        Enter(t, "Fq", "L14", qq, s, ss, r, 2 * t - 1, p2, j1, j2)

\* line 3: return sphere_volume(radius);
FormVolumeBody(t) ==
    /\ frame[t].op = "form_volume" /\ frame[t].pc = "L3"
    /\ frame' = [frame EXCEPT ![t].ret = form_volume(frame[t].radius),
                              ![t].pc = "ret"]
    /\ UNCHANGED <<local, mem, stores>>

\* line 9: return sphere_form(q, radius, sld, sld_solvent);
IqBody(t) ==
    /\ frame[t].op = "Iq" /\ frame[t].pc = "L9"
    /\ frame' = [frame EXCEPT
                    ![t].ret = Iq(frame[t].q, frame[t].sld, frame[t].solvent,
                                  frame[t].radius),
                    ![t].pc = "ret"]
    /\ UNCHANGED <<local, mem, stores>>

FqAt(t, line) == frame[t].op = "Fq" /\ frame[t].pc = line

FqL14(t) ==
    /\ FqAt(t, "L14")
    /\ local' = [local EXCEPT ![LocalOf(t)].fq = Fq_fq(frame[t].q, frame[t].radius)]
    /\ frame' = [frame EXCEPT ![t].pc = FqNextPc("L14")]
    /\ UNCHANGED <<mem, stores>>

FqL15(t) ==
    /\ FqAt(t, "L15")
    /\ local' = [local EXCEPT ![LocalOf(t)].contrast =
                    Fq_contrast(frame[t].sld, frame[t].solvent)]
    /\ frame' = [frame EXCEPT ![t].pc = FqNextPc("L15")]
    /\ UNCHANGED <<mem, stores>>

FqL16(t) ==
    /\ FqAt(t, "L16")
    /\ local' = [local EXCEPT ![LocalOf(t)].form =
                    Fq_form(local[LocalOf(t)].contrast, frame[t].radius,
                            local[LocalOf(t)].fq)]
    /\ frame' = [frame EXCEPT ![t].pc = FqNextPc("L16")]
    /\ UNCHANGED <<mem, stores>>

FqL17(t) ==
    /\ FqAt(t, "L17")
    /\ mem' = StoreF1(mem, frame[t].F1, local[LocalOf(t)].form)
    /\ stores' = [stores EXCEPT ![t] = Append(stores[t], frame[t].F1)]
    /\ frame' = [frame EXCEPT ![t].pc = FqNextPc("L17")]
    /\ UNCHANGED local

FqL18(t) ==
    /\ FqAt(t, "L18")
    /\ mem' = StoreF2(mem, frame[t].F2, local[LocalOf(t)].form)
    /\ stores' = [stores EXCEPT ![t] = Append(stores[t], frame[t].F2)]
    /\ frame' = [frame EXCEPT ![t].pc = FqNextPc("L18")]
    /\ UNCHANGED local

Step(t) ==
    \/ FormVolumeBody(t)
    \/ IqBody(t)
    \/ FqL14(t)
    \/ FqL15(t)
    \/ FqL16(t)
    \/ FqL17(t)
    \/ FqL18(t)

\* One thread of control calling the kernel: a call starts when none is in
\* progress; two slots keep the results of two calls side by side.
Pair == {1, 2}

Quiescent == \A t \in Slots : AtRest(t)

Next ==
    \/ \E t \in Pair : Quiescent /\ CallFormVolume(t, RVals, {JunkA})
    \/ \E t \in Pair : Quiescent /\ CallIq(t, QVals, SldVals, RVals, {JunkA})
    \/ \E t \in Pair : Quiescent /\ CallFq(t, QVals, SldVals, RVals, {JunkA}, {2 * t})
    \/ \E t \in Pair : Step(t)

Spec == Init /\ [][Next]_vars

\* Any number of threads, each calling the kernel with its own arguments and
\* its own output storage, their statements interleaved arbitrarily.
NextConc ==
    \/ \E t \in Slots : CallFormVolume(t, RConc, {JunkA})
    \/ \E t \in Slots : CallIq(t, QConc, SldVals, RConc, {JunkA})
    \/ \E t \in Slots : CallFq(t, QConc, SldVals, RConc, {JunkA}, {2 * t})
    \/ \E t \in Slots : Step(t)

SpecConc == Init /\ [][NextConc]_vars

\* One caller whose output storage holds arbitrary values and whose F2 may
\* point to the same location as F1.
NextAlias ==
    \/ CallFormVolume(1, RVals, {JunkA, JunkB})
    \/ CallIq(1, QVals, SldVals, RVals, {JunkA, JunkB})
    \/ CallFq(1, QVals, SldVals, RVals, {JunkA, JunkB}, CellsOf(1))
    \/ Step(1)

SpecAlias == Init /\ [][NextAlias]_vars

---------------------------------------------------------------------------
(* Properties                                                              *)

F1Of(t) == mem[frame[t].F1]

F2Of(t) == mem[frame[t].F2]

SameArgs(s, t) ==
    /\ frame[s].q = frame[t].q
    /\ frame[s].sld = frame[t].sld
    /\ frame[s].solvent = frame[t].solvent
    /\ frame[s].radius = frame[t].radius

\* The densities of t are those of s exchanged.
Swapped(s, t) ==
    /\ frame[s].q = frame[t].q
    /\ frame[s].radius = frame[t].radius
    /\ frame[s].sld = frame[t].solvent
    /\ frame[s].solvent = frame[t].sld

Eight == Rat(8, 1)

SixtyFour == Rat(64, 1)

\* t has twice the radius of s.
Doubled(s, t) == frame[t].radius = Mul(Two, frame[s].radius)

\* t has half the q and twice the radius of s, and the same densities.
Scaled(s, t) ==
    /\ frame[t].q = Div(frame[s].q, Two)
    /\ Doubled(s, t)
    /\ frame[s].sld = frame[t].sld
    /\ frame[s].solvent = frame[t].solvent

Hundredth == Rat(1, 100)

\* 1e-2 * (sld - solvent_sld) * sphere_volume(radius) * sas_3j1x_x(q*radius)
Amplitude(q, sld, solvent_sld, radius) ==
    Mul(Mul(Mul(Hundredth, Sub(sld, solvent_sld)), sphere_volume(radius)),
        sas_3j1x_x(Mul(q, radius)))

AmplitudeOf(t) ==
    Amplitude(frame[t].q, frame[t].sld, frame[t].solvent, frame[t].radius)

C2_F2IsF1Squared ==
    \A t \in Slots :
        Returned(t, "Fq") => F2Of(t) = Mul(F1Of(t), F1Of(t)) /\ F2Of(t).m >= 0

C2_Witness ==
    \E t \in Slots : Returned(t, "Fq") /\ F1Of(t).m < 0 /\ F2Of(t).m > 0

\* C3: after a call to Fq the value stored at F1 is
\* 1e-2 * (sld - solvent_sld) * sphere_volume(radius) * sas_3j1x_x(q*radius).
C3_F1IsAmplitude ==
    \A t \in Slots : Returned(t, "Fq") => F1Of(t) = AmplitudeOf(t)

C3_Witness ==
    \E t \in Slots :
        /\ Returned(t, "Fq") /\ frame[t].q # Zero
        /\ Lt(frame[t].sld, frame[t].solvent) /\ F1Of(t).m < 0

C6_Symmetry ==
    \A s, t \in Slots :
        /\ Returned(s, "Fq") /\ Returned(t, "Fq") /\ Swapped(s, t)
           => F1Of(t) = Neg(F1Of(s)) /\ F2Of(t) = F2Of(s)
        /\ Returned(s, "Iq") /\ Returned(t, "Iq") /\ Swapped(s, t)
           => frame[t].ret = frame[s].ret

C6_Witness ==
    \E s, t \in Slots :
        /\ Returned(s, "Fq") /\ Returned(t, "Fq") /\ Swapped(s, t)
        /\ frame[s].q # Zero /\ F1Of(s).m < 0 /\ F1Of(t).m > 0

\* C7: halving q and doubling the radius leaves the Bessel ratio's argument
\* (and so fq) unchanged, multiplies the F1 that Fq stores by 8 and F2 by 64;
\* doubling the radius multiplies form_volume by 8.
C7_ScaleLaw ==
    \A s, t \in Slots :
        /\ Returned(s, "Fq") /\ Returned(t, "Fq") /\ Scaled(s, t)
           => /\ Mul(frame[t].q, frame[t].radius) = Mul(frame[s].q, frame[s].radius)
              /\ local[t].fq = local[s].fq
              /\ F1Of(t) = Mul(Eight, F1Of(s))
              /\ F2Of(t) = Mul(SixtyFour, F2Of(s))
        /\ Returned(s, "form_volume") /\ Returned(t, "form_volume") /\ Doubled(s, t)
           => frame[t].ret = Mul(Eight, frame[s].ret)

C7_Witness ==
    \E s, t \in Slots :
        /\ Returned(s, "Fq") /\ Returned(t, "Fq") /\ Scaled(s, t)
        /\ frame[s].q = One /\ F1Of(s).m # 0

\* C8: with any interleaving of concurrent calls, each on its own arguments
\* and output storage, every call that has returned has produced what it
\* produces when run alone, and a call that has stored F1 has stored its own.
C8_Isolation ==
    \A t \in Slots :
        /\ Returned(t, "form_volume") => frame[t].ret = form_volume(frame[t].radius)
        /\ Returned(t, "Iq")
              => frame[t].ret = Iq(frame[t].q, frame[t].sld, frame[t].solvent,
                                    frame[t].radius)
        /\ FqAt(t, "L18") => F1Of(t) = AmplitudeOf(t)
        /\ Returned(t, "Fq")
              => /\ F1Of(t) = AmplitudeOf(t)
                 /\ F2Of(t) = Mul(AmplitudeOf(t), AmplitudeOf(t))

C8_Witness ==
    \E s, t \in Slots :
        /\ s # t /\ FqAt(s, "L18") /\ Returned(t, "Fq")
        /\ frame[s].sld # frame[t].sld /\ frame[s].solvent = frame[t].solvent
        /\ F1Of(s) # F1Of(t) /\ F1Of(t).m # 0

\* A step in which no caller enters a function: a step of a function body.
BodyStep == \A t \in Slots : AtRest(t) => frame'[t] = frame[t]

\* C9: a step of Fq changes no memory but *F1 and *F2, and Fq has stored once
\* to each when it returns; a step of form_volume or Iq changes no memory; no
\* step of a function changes the arguments of any call.
C9_FrameStep ==
    BodyStep =>
        /\ \A t \in Slots :
              /\ frame'[t].q = frame[t].q /\ frame'[t].sld = frame[t].sld
              /\ frame'[t].solvent = frame[t].solvent
              /\ frame'[t].radius = frame[t].radius
              /\ frame'[t].F1 = frame[t].F1 /\ frame'[t].F2 = frame[t].F2
        /\ \A t \in Slots :
              frame'[t].pc # frame[t].pc =>
                  /\ frame[t].op \in {"form_volume", "Iq"} => mem' = mem
                  /\ \A a \in Addrs \ {frame[t].F1, frame[t].F2} : mem'[a] = mem[a]
                  /\ frame[t].op = "Fq" /\ frame'[t].pc = "ret"
                        => stores'[t] = <<frame[t].F1, frame[t].F2>>

C9_Frame == [][C9_FrameStep]_vars

C9_Witness ==
    \E s, t \in Slots :
        /\ s # t /\ Returned(s, "Iq")
        /\ Returned(t, "Fq") /\ stores[t] = <<frame[t].F1, frame[t].F2>>
        /\ F1Of(t) # JunkA /\ F2Of(t) # JunkA /\ mem[0] = JunkA

\* C10: Fq stores F1 before F2 and what it stores does not depend on what the
\* output locations held; when F1 and F2 are the same location, that location
\* holds form*form after the call.
C10_StoreOrder ==
    \A t \in Slots :
        /\ frame[t].op = "Fq" /\ frame[t].pc \in {"L14", "L15", "L16", "L17"}
              => stores[t] = <<>>
        /\ FqAt(t, "L18")
              => stores[t] = <<frame[t].F1>> /\ F1Of(t) = AmplitudeOf(t)
        /\ Returned(t, "Fq")
              => /\ stores[t] = <<frame[t].F1, frame[t].F2>>
                 /\ F2Of(t) = Mul(AmplitudeOf(t), AmplitudeOf(t))
                 /\ frame[t].F1 # frame[t].F2 => F1Of(t) = AmplitudeOf(t)

C10_Witness ==
    \E t \in Slots :
        /\ Returned(t, "Fq") /\ frame[t].F1 = frame[t].F2
        /\ F2Of(t).m # 0 /\ F2Of(t) # AmplitudeOf(t)

====
